---- MODULE Spec2Model ----
(***************************************************************************)
(* Model of the Grover block-search tool chain:                            *)
(*   Scan_1_1024/01_build_low_selectivity_plan.py  (block codec, encode)   *)
(*   02_run_low_selectivity_jobs.py   (bit-position decoder, block decode) *)
(*   Scan_1_1024/grover_kernel.py     (U3+CZ gate synthesis and builder)   *)
(*                                                                         *)
(*   qcloud_utils.py                  (job submission, polling, result)    *)
(*   probe_bit_order.py               (wire -> bitstring position probe)   *)
(*                                                                         *)
(* The specifications share the variables below:                           *)
(*   SpecCodec   the block index codec, plan side then runner side         *)
(*   SpecDecode  the loop of decode_index_from_bitstring                   *)
(*   SpecSim     exact simulation of the gate lists the kernel emits       *)
(*   SpecBuild   the circuit builder, including its failing calls          *)
(*   SpecJob     run_job_get_probs_ex against an arbitrary backend         *)
(*   SpecProbe   the probe loop and the runner's identity fallback         *)
(***************************************************************************)
EXTENDS Integers, Sequences, FiniteSets, TLC

VARIABLES
    \* --- block codec (plan builder / job runner) ---
    cpc,            \* "args" | "planned" | "analyzed" | "error"
    block_bits,     \* args.block_bits
    rep_target,     \* the representative global record id
    block_id,       \* record field block_id
    local_targets,  \* record field local_targets (a list)
    top_global,     \* analyze_hit_blocked: the reassembled global id
    \* --- decode_index_from_bitstring ---
    dpc,            \* "loop" | "returned"
    bitstr,         \* the measured bitstring, a sequence of "0"/"1"
    qubit_to_pos,   \* the (possibly partial) wire -> position mapping
    active_nbits,   \* number of bits to decode
    qi,             \* loop variable
    idx,            \* accumulator / returned index
    \* --- grover_kernel: program under construction and its simulation ---
    kpc,            \* "idle" | "built" | "running" | "done" | "raised"
    prog,           \* the QProg: sequence of gate applications
    err,            \* NoError or the ValueError raised by the last call
    cmz_at,         \* ghost: prog positions at which a _cmz call begins
    call,           \* ghost: the call that produced prog, with its arguments
    before,         \* ghost: the gates prog held when the last call began
    ip,             \* simulation: index of the next gate to apply
    psi,            \* simulation: the register state
    \* --- qcloud_utils.run_job_get_probs_ex and the record main writes ---
    jpc,            \* "idle" | "run" | "status" | "sleep" | "result" | "probs"
                    \*   | "returned" | "raised" | "recorded"
    clock,          \* time.time()
    t0,             \* the clock when the function was entered
    max_poll_sec,   \* argument
    poll_interval_sec, \* argument
    job_status,     \* st, the status the last job.status() call returned
    polls,          \* ghost: number of job.status() calls made
    ret,            \* the returned pair (probs, error_message)
    exc,            \* the exception that left the function, if any
    rec,            \* main: status and error_message of the merged record
    \* --- probe_bit_order.infer_bit_order_mapping and main's fallback ---
    ppc,            \* "idle" | "probing" | "probed" | "ready"
    probe_nbits_max,    \* nbits_max
    probe_q,            \* the loop variable q over qubits_to_test
    probe_qubit_to_pos, \* ProbeResult.qubit_to_pos, a (partial) dict
    main_qubit_to_pos,  \* main: qubit_to_pos after the identity fallback
    fallback_used       \* main: fallback_used

codecVars  == <<cpc, block_bits, rep_target, block_id, local_targets, top_global>>
decodeVars == <<dpc, bitstr, qubit_to_pos, active_nbits, qi, idx>>
kernelVars == <<kpc, prog, err, cmz_at, call, before, ip, psi>>
jobVars    == <<jpc, clock, t0, max_poll_sec, poll_interval_sec, job_status, polls,
               ret, exc, rec>>
probeVars  == <<ppc, probe_nbits_max, probe_q, probe_qubit_to_pos, main_qubit_to_pos,
               fallback_used>>
cloudVars  == <<jobVars, probeVars>>
vars       == <<codecVars, decodeVars, kernelVars, cloudVars>>

(***************************************************************************)
(* Bounds of the model.                                                    *)
(***************************************************************************)
MaxGlobal    == 1023   \* global record ids 0..MaxGlobal
MaxBlockBits == 10   \* --block-bits ranges over 0..MaxBlockBits
MaxBits      == 3    \* decoder: active_nbits ranges over 0..MaxBits
MaxStrLen    == 3    \* decoder: bitstrings of 0..MaxStrLen characters
MaxControls  == 4    \* simulation: _cmz with 0..MaxControls controls
MaxActive    == 4    \* simulation: oracle on 1..MaxActive active wires
MaxRunActive == 3    \* simulation: whole programs on 1..MaxRunActive active wires
MaxRunTargets == 1   \* simulation: whole programs with 0..MaxRunTargets targets
MaxRunIters  == 2    \* simulation: whole programs with 0..MaxRunIters iterations
MaxBuildActive == 4  \* builder: 0..MaxBuildActive active wires
MaxBuildTargets == 1 \* builder: target lists of length 0..MaxBuildTargets
MaxBuildIters == 1   \* builder: grover_iters in 0..MaxBuildIters
MaxListActive == 3   \* simulation: oracle for a target list on 1..MaxListActive wires
MaxListTargets == 2  \* simulation: oracle target lists of length 0..MaxListTargets
MaxPollSec   == 3    \* job: max_poll_sec in 0..MaxPollSec
MaxIntervalSec == 2  \* job: poll_interval_sec in 0..MaxIntervalSec
MaxCallSec   == 2    \* job: a job.status() call takes 1..MaxCallSec
MaxDictLen   == 2    \* job: dicts of 0..MaxDictLen items in a probs_list
MaxWires     == 3    \* probe: nbits_max in 0..MaxWires
MaxOutcomes  == 2    \* probe: probs of 0..MaxOutcomes bitstrings

(***************************************************************************)
(* Python integer operators, computed bit by bit.                          *)
(***************************************************************************)
Pow2(n) == 2 ^ n

\* x >> n on a non-negative Python int
Shr(x, n) == x \div Pow2(n)

\* x << n
Shl(x, n) == x * Pow2(n)

RECURSIVE BitAnd(_, _)
\* x & y
BitAnd(x, y) ==
    IF x = 0 \/ y = 0 THEN 0
    ELSE (IF x % 2 = 1 /\ y % 2 = 1 THEN 1 ELSE 0) + 2 * BitAnd(x \div 2, y \div 2)

RECURSIVE BitOr(_, _)
\* x | y
BitOr(x, y) ==
    IF x = 0 THEN y
    ELSE IF y = 0 THEN x
    ELSE (IF x % 2 = 1 \/ y % 2 = 1 THEN 1 ELSE 0) + 2 * BitOr(x \div 2, y \div 2)

Max(a, b) == IF a >= b THEN a ELSE b
Min(a, b) == IF a <= b THEN a ELSE b

None == "None"

(***************************************************************************)
(* Block index codec.                                                      *)
(***************************************************************************)
\* mask = block_size - 1 with block_size = 1 << b
mask_of_wrong(b) == Shl(1, b)
mask_of(b) == Shl(1, b) - 1

\* plan builder: block_id, local_targets of the representative target
encode(global, b) ==
    [block_id |-> Shr(global, b), local |-> BitAnd(global, mask_of(b))]

\* job runner: global id from block id and local index
decode(bid, local, b) == BitOr(Shl(bid, b), local)

CodecIdle ==
    /\ cpc = "off" /\ block_bits = 0 /\ rep_target = 0
    /\ block_id = None /\ local_targets = <<>> /\ top_global = None

CodecInit ==
    /\ cpc = "args"
    /\ block_bits \in 0..MaxBlockBits
    /\ rep_target \in 0..MaxGlobal
    /\ block_id = None
    /\ local_targets = <<>>
    /\ top_global = None

\* 01_build_low_selectivity_plan.main: --block-bits < 1 is rejected
PlanRejects ==
    /\ cpc = "args"
    /\ block_bits < 1
    /\ cpc' = "error"
    /\ UNCHANGED <<block_bits, rep_target, block_id, local_targets, top_global>>
    /\ UNCHANGED <<decodeVars, kernelVars, cloudVars>>

\* 01_build_low_selectivity_plan.main: one record with a hit
PlanRecord ==
    /\ cpc = "args"
    /\ block_bits >= 1
    /\ block_id' = encode(rep_target, block_bits).block_id
    /\ local_targets' = <<encode(rep_target, block_bits).local>>
    /\ cpc' = "planned"
    /\ UNCHANGED <<block_bits, rep_target, top_global>>
    /\ UNCHANGED <<decodeVars, kernelVars, cloudVars>>

\* analyze_hit_blocked: the measured local index of the record is put back
\* behind its block id
AnalyzeHit ==
    /\ cpc = "planned"
    /\ top_global' = decode(block_id, local_targets[1], block_bits)
    /\ cpc' = "analyzed"
    /\ UNCHANGED <<block_bits, rep_target, block_id, local_targets>>
    /\ UNCHANGED <<decodeVars, kernelVars, cloudVars>>

CodecNext == PlanRejects \/ PlanRecord \/ AnalyzeHit

(***************************************************************************)
(* Bit-position decoder.                                                   *)
(***************************************************************************)
\* bitstr[pos] for a Python (0-based) position inside the string
char_at(s, pos) == s[pos + 1]

decode_body_shift_pos(i, s, map, q) ==
    IF q \notin DOMAIN map \/ map[q] < 0 \/ map[q] >= Len(s) THEN i
    ELSE BitOr(i, Shl(IF char_at(s, map[q]) = "1" THEN 1 ELSE 0, map[q]))

\* one iteration of the loop of decode_index_from_bitstring:
\*   pos = qubit_to_pos.get(qi, None)
\*   if pos is None or pos < 0 or pos >= L: continue
\*   idx |= (1 if bitstr[pos] == "1" else 0) << qi
decode_body(i, s, map, q) ==
    IF q \notin DOMAIN map \/ map[q] < 0 \/ map[q] >= Len(s) THEN i
    ELSE BitOr(i, Shl(IF char_at(s, map[q]) = "1" THEN 1 ELSE 0, q))

BitStrings == UNION {[1..L -> {"0", "1"}] : L \in 0..MaxStrLen}
Positions  == (-1)..MaxStrLen
PartialMaps(n) == UNION {[D -> Positions] : D \in SUBSET (0..(n - 1))}

DecodeIdle ==
    /\ dpc = "off" /\ bitstr = <<>> /\ qubit_to_pos = <<>>
    /\ active_nbits = 0 /\ qi = 0 /\ idx = 0

DecodeInit ==
    /\ dpc = "loop"
    /\ bitstr \in BitStrings
    /\ active_nbits \in 0..MaxBits
    /\ qubit_to_pos \in PartialMaps(active_nbits)
    /\ qi = 0
    /\ idx = 0

\* for qi in range(active_nbits): ...
DecodeIter ==
    /\ dpc = "loop"
    /\ qi < active_nbits
    /\ idx' = decode_body(idx, bitstr, qubit_to_pos, qi)
    /\ qi' = qi + 1
    /\ UNCHANGED <<dpc, bitstr, qubit_to_pos, active_nbits>>
    /\ UNCHANGED <<codecVars, kernelVars, cloudVars>>

\* return idx
DecodeReturn ==
    /\ dpc = "loop"
    /\ qi >= active_nbits
    /\ dpc' = "returned"
    /\ UNCHANGED <<bitstr, qubit_to_pos, active_nbits, qi, idx>>
    /\ UNCHANGED <<codecVars, kernelVars, cloudVars>>

DecodeNext == DecodeIter \/ DecodeReturn

(***************************************************************************)
(* qcloud_utils.py: run_job_get_probs_ex.                                  *)
(*                                                                         *)
(* The backend is the environment: backend.run, job.status, job.result and *)
(* get_probs_list each either return a value or raise, as they please.     *)
(* Python values carry their type, so that isinstance, truth value and     *)
(* float() are computed as Python computes them.  A float is written in    *)
(* halves (PyFloat(1) is 0.5), a dict as the list of its items in order,   *)
(* a string built by an f-string as the list of its non-empty pieces.      *)
(***************************************************************************)
PyNone         == [type |-> "NoneType"]
PyFloat(h)     == [type |-> "float", v |-> h]
PyInt(n)       == [type |-> "int", v |-> n]
PyStr(text)    == [type |-> "str", v |-> text]
PyList(items)  == [type |-> "list", items |-> items]
PyTuple(items) == [type |-> "tuple", items |-> items]
PyDict(items)  == [type |-> "dict", items |-> items]

PyException(type, msg) == [type |-> type, msg |-> msg]

\* isinstance(e, RuntimeError): RuntimeError and its subclasses
IsRuntimeError(e) == e.type \in {"RuntimeError", "NotImplementedError"}

\* bool(x)
py_bool(x) ==
    IF x.type = "NoneType" THEN FALSE
    ELSE IF x.type \in {"list", "tuple", "dict"} THEN Len(x.items) > 0
    ELSE IF x.type = "str" THEN x.v # ""
    ELSE x.v # 0

\* float(x): the value, or the exception float() raises
py_float(x) ==
    IF x.type = "float" THEN [ok |-> TRUE, val |-> x]
    ELSE IF x.type = "int" THEN [ok |-> TRUE, val |-> PyFloat(2 * x.v)]
    ELSE IF x.type = "str"
    THEN IF x.v = "0.5" THEN [ok |-> TRUE, val |-> PyFloat(1)]
         ELSE IF x.v = "1" THEN [ok |-> TRUE, val |-> PyFloat(2)]
         ELSE [ok |-> FALSE,
               val |-> PyException("ValueError", "could not convert string to float")]
    ELSE [ok |-> FALSE,
          val |-> PyException("TypeError", "float() argument must be a string or a real number")]

\* f"{prefix}{detail}"
Fmt(prefix, detail) == IF detail = "" THEN <<prefix>> ELSE <<prefix, detail>>

\* how a step of the function ends: a return of (probs, error_message), an
\* exception leaving the function, or control moving on to the next step
Return(probs, msg) ==
    [pc |-> "returned", ret |-> [probs |-> probs, err |-> msg], exc |-> PyNone]
Propagate(e) == [pc |-> "raised", ret |-> PyNone, exc |-> e]
Goto(pc)     == [pc |-> pc, ret |-> PyNone, exc |-> PyNone]

\* except Exception as e: return {}, f"backend.run failed: {e}"
run_raised(e) == Return(<<>>, Fmt("backend.run failed: ", e.msg))

status_raised_runtime_only(e) ==
    IF IsRuntimeError(e)
    THEN Return(<<>>, Fmt("job.status runtime error: ", e.msg))
    ELSE Propagate(e)

\* except RuntimeError as e: ...; except Exception as e: ...
status_raised(e) ==
    IF IsRuntimeError(e)
    THEN Return(<<>>, Fmt("job.status runtime error: ", e.msg))
    ELSE Return(<<>>, Fmt("job.status failed: ", e.msg))

\* the tests on st after job.status() returned, now being time.time()
after_status(status, now, start, max_sec) ==
    IF status = "FINISHED" THEN Goto("result")
    ELSE IF status = "FAILED" THEN Return(<<>>, Fmt("job ended with status=", status))
    ELSE IF now - start > max_sec THEN Return(<<>>, <<"poll timeout">>)
    ELSE Goto("sleep")

\* except Exception as e: return {}, f"job.result failed: {e}"
result_raised(e) == Return(<<>>, Fmt("job.result failed: ", e.msg))

\* except Exception as e: return {}, f"get_probs_list failed: {e}"
get_probs_list_raised(e) == Return(<<>>, Fmt("get_probs_list failed: ", e.msg))

\* {k: float(v) for k, v in first.items()}: the items with float(v), or the
\* exception of the first value float() rejects
convert_probs(items) ==
    LET bad == {i \in 1..Len(items) : ~py_float(items[i][2]).ok}
    IN  IF bad = {}
        THEN [ok |-> TRUE, val |-> [i \in 1..Len(items) |->
                                       <<items[i][1], py_float(items[i][2]).val>>]]
        ELSE [ok |-> FALSE,
              val |-> py_float(items[CHOOSE i \in bad : \A j \in bad : i <= j][2]).val]

\* the tail of the function, from "if not probs_list or not isinstance(...)"
extract_probs(probs_list) ==
    IF ~py_bool(probs_list) \/ probs_list.type # "list"
    THEN Return(<<>>, <<"empty probs_list">>)
    ELSE LET first == probs_list.items[1]
         IN  IF first.type = "dict"
             THEN LET c == convert_probs(first.items)
                  IN  IF c.ok THEN Return(c.val, <<>>)
                      ELSE Return(<<>>, Fmt("convert probs failed: ", c.val.msg))
             ELSE Return(<<>>, <<"unexpected probs_list element type">>)

\* the exceptions the backend raises
BackendExceptions ==
    {PyException("RuntimeError", "invalid compensate qubit pair"),
     PyException("NotImplementedError", ""),
     PyException("ConnectionError", "connection reset")}

\* JobStatus values job.status() returns
JobStatuses == {"RUNNING", "FINISHED", "FAILED", "CANCELED"}

\* what get_probs_list() returns: None, lists (empty, of dicts, of something
\* else), and objects that are not lists
RawValues == {PyFloat(1), PyInt(1), PyStr("0.5"), PyStr("n/a"), PyNone}
RawKeys   == {<<"0">>, <<"1">>}
RawItems  ==
    {items \in UNION {[1..L -> RawKeys \X RawValues] : L \in 0..MaxDictLen} :
        \A i, j \in 1..Len(items) : i # j => items[i][1] # items[j][1]}
ProbsLists ==
    {PyNone, PyList(<<>>), PyTuple(<<PyDict(<<>>)>>), PyDict(<<<<<<"0">>, PyFloat(2)>>>>)}
    \cup {PyList(<<PyDict(items)>>) : items \in RawItems}
    \cup {PyList(<<PyNone>>), PyList(<<PyList(<<>>)>>),
          PyList(<<PyDict(<<>>), PyDict(<<<<<<"1">>, PyFloat(2)>>>>)>>),
          PyList(<<PyDict(<<<<<<"1">>, PyFloat(2)>>>>), PyDict(<<>>)>>)}

JobIdle ==
    /\ jpc = "idle" /\ clock = 0 /\ t0 = 0
    /\ max_poll_sec = 0 /\ poll_interval_sec = 0
    /\ job_status = "none" /\ polls = 0
    /\ ret = PyNone /\ exc = PyNone /\ rec = PyNone

\* a step of the function ends as o says
Finish(o) == jpc' = o.pc /\ ret' = o.ret /\ exc' = o.exc

\* the call: t0 = time.time()
RunJob ==
    /\ jpc = "idle"
    /\ max_poll_sec' \in 0..MaxPollSec
    /\ poll_interval_sec' \in 0..MaxIntervalSec
    /\ t0' = clock
    /\ jpc' = "run"
    /\ UNCHANGED <<clock, job_status, polls, ret, exc, rec>>
    /\ UNCHANGED <<codecVars, decodeVars, kernelVars, probeVars>>

\* job = backend.run(progs, int(shots), options), inside try
BackendRun ==
    /\ jpc = "run"
    /\ \E d \in 0..1 : clock' = clock + d
    /\ \/ Finish(Goto("status"))
       \/ \E e \in BackendExceptions : Finish(run_raised(e))
    /\ UNCHANGED <<t0, max_poll_sec, poll_interval_sec, job_status, polls, rec>>
    /\ UNCHANGED <<codecVars, decodeVars, kernelVars, probeVars>>

\* one pass of the while loop up to the sleep: st = job.status() inside
\* try, then the tests on st and on the elapsed time
PollStatus ==
    /\ jpc = "status"
    /\ \E d \in 1..MaxCallSec : clock' = clock + d
    /\ polls' = polls + 1
    /\ \/ \E status \in JobStatuses :
            /\ job_status' = status
            /\ Finish(after_status(status, clock', t0, max_poll_sec))
       \/ \E e \in BackendExceptions :
            /\ job_status' = job_status
            /\ Finish(status_raised(e))
    /\ UNCHANGED <<t0, max_poll_sec, poll_interval_sec, rec>>
    /\ UNCHANGED <<codecVars, decodeVars, kernelVars, probeVars>>

\* time.sleep(poll_interval_sec)
Sleep ==
    /\ jpc = "sleep"
    /\ clock' = clock + poll_interval_sec
    /\ jpc' = "status"
    /\ UNCHANGED <<t0, max_poll_sec, poll_interval_sec, job_status, polls, ret, exc, rec>>
    /\ UNCHANGED <<codecVars, decodeVars, kernelVars, probeVars>>

\* res = job.result(), inside try
JobResult ==
    /\ jpc = "result"
    /\ \/ Finish(Goto("probs"))
       \/ \E e \in BackendExceptions : Finish(result_raised(e))
    /\ UNCHANGED <<clock, t0, max_poll_sec, poll_interval_sec, job_status, polls, rec>>
    /\ UNCHANGED <<codecVars, decodeVars, kernelVars, probeVars>>

\* probs_list = res.get_probs_list(), inside try, and the rest of the function
GetProbsList ==
    /\ jpc = "probs"
    /\ \/ \E probs_list \in ProbsLists : Finish(extract_probs(probs_list))
       \/ \E e \in BackendExceptions : Finish(get_probs_list_raised(e))
    /\ UNCHANGED <<clock, t0, max_poll_sec, poll_interval_sec, job_status, polls, rec>>
    /\ UNCHANGED <<codecVars, decodeVars, kernelVars, probeVars>>

\* main: "status": "OK" if probs else "FAILED", "error_message": err
MainRecord ==
    /\ jpc = "returned"
    /\ rec' = [status |-> IF ret.probs # <<>> THEN "OK" ELSE "FAILED",
               error_message |-> ret.err]
    /\ jpc' = "recorded"
    /\ UNCHANGED <<clock, t0, max_poll_sec, poll_interval_sec, job_status, polls, ret, exc>>
    /\ UNCHANGED <<codecVars, decodeVars, kernelVars, probeVars>>

JobNext == RunJob \/ BackendRun \/ PollStatus \/ Sleep \/ JobResult \/ GetProbsList \/ MainRecord

(***************************************************************************)
(* probe_bit_order.py: infer_bit_order_mapping, and the identity fallback  *)
(* of the job runner's main.  The probs of a probe are what                *)
(* run_job_get_probs_ex returned for it: {} for a failed probe, or a dict  *)
(* of floats keyed by bitstring.  A dict int -> int is a function.         *)
(***************************************************************************)
RECURSIVE marginal_at(_, _, _, _)
\* marg[pos] after the loop over probs.items(): the sum of p over the
\* bitstrings of length L that hold "1" at pos
marginal_at(probs, L, pos, k) ==
    IF k > Len(probs) THEN 0
    ELSE (IF Len(probs[k][1]) = L /\ probs[k][1][pos + 1] = "1" THEN probs[k][2].v ELSE 0)
         + marginal_at(probs, L, pos, k + 1)

\* _marginals_from_probs: [] for no probs, else one sum for each position of
\* the first key
_marginals_from_probs(probs) ==
    IF probs = <<>> THEN <<>>
    ELSE LET L == Len(probs[1][1])
         IN  [i \in 1..L |-> marginal_at(probs, L, i - 1, 1)]

\* max(range(len(marg)), key=lambda i: marg[i]): the first position holding
\* the largest marginal
best_pos_of(marg) ==
    CHOOSE i \in 0..(Len(marg) - 1) :
        /\ \A j \in 0..(Len(marg) - 1) : marg[j + 1] <= marg[i + 1]
        /\ \A j \in 0..(i - 1) : marg[j + 1] < marg[i + 1]

\* d[k] = v
dict_set(d, k, v) == [x \in DOMAIN d \cup {k} |-> IF x = k THEN v ELSE d[x]]

\* the body of the loop over qubits_to_test, probs being the result of the
\* probe job for q
probe_body(map, q, probs) ==
    IF probs = <<>> THEN map
    ELSE LET marg == _marginals_from_probs(probs)
         IN  IF Len(marg) > 0 THEN dict_set(map, q, best_pos_of(marg)) ELSE map

\* main: for q in range(nbits_max): if q not in qubit_to_pos: qubit_to_pos[q] = q
identity_fallback(map, W) ==
    [q \in DOMAIN map \cup (0..(W - 1)) |-> IF q \in DOMAIN map THEN map[q] ELSE q]

\* bitstrings of length L
BitStringsOfLen(L) == [1..L -> {"0", "1"}]

\* the probs of a probe on W measured wires: {} or up to MaxOutcomes
\* bitstrings, of W characters or one less, with probability 0.5 or 1.0
ProbeProbs(W) ==
    LET keys == BitStringsOfLen(W) \cup BitStringsOfLen(Max(0, W - 1))
        vals == {PyFloat(1), PyFloat(2)}
    IN  {items \in UNION {[1..L -> keys \X vals] : L \in 0..MaxOutcomes} :
            \A i, j \in 1..Len(items) : i # j => items[i][1] # items[j][1]}

ProbeIdle ==
    /\ ppc = "idle" /\ probe_nbits_max = 0 /\ probe_q = 0
    /\ probe_qubit_to_pos = <<>> /\ main_qubit_to_pos = <<>>
    /\ fallback_used = FALSE

CloudIdle == JobIdle /\ ProbeIdle

\* infer_bit_order_mapping(nbits_max = W): qubits_to_test = list(range(W)),
\* qubit_to_pos = {}
ProbeStart ==
    /\ ppc = "idle"
    /\ probe_nbits_max' \in 0..MaxWires
    /\ probe_q' = 0
    /\ probe_qubit_to_pos' = <<>>
    /\ ppc' = "probing"
    /\ UNCHANGED <<main_qubit_to_pos, fallback_used>>
    /\ UNCHANGED <<codecVars, decodeVars, kernelVars, jobVars>>

\* for q in qubits_to_test: run the probe job, skip a failed probe, record
\* the position of the largest marginal
ProbeWire ==
    /\ ppc = "probing"
    /\ probe_q < probe_nbits_max
    /\ \E probs \in ProbeProbs(probe_nbits_max) :
        probe_qubit_to_pos' = probe_body(probe_qubit_to_pos, probe_q, probs)
    /\ probe_q' = probe_q + 1
    /\ UNCHANGED <<ppc, probe_nbits_max, main_qubit_to_pos, fallback_used>>
    /\ UNCHANGED <<codecVars, decodeVars, kernelVars, jobVars>>

\* return ProbeResult(...)
ProbeReturn ==
    /\ ppc = "probing"
    /\ probe_q >= probe_nbits_max
    /\ ppc' = "probed"
    /\ UNCHANGED <<probe_nbits_max, probe_q, probe_qubit_to_pos, main_qubit_to_pos,
                   fallback_used>>
    /\ UNCHANGED <<codecVars, decodeVars, kernelVars, jobVars>>

\* main: qubit_to_pos = dict(probe.qubit_to_pos), then the identity fallback
MainFallback ==
    /\ ppc = "probed"
    /\ main_qubit_to_pos' = identity_fallback(probe_qubit_to_pos, probe_nbits_max)
    /\ fallback_used' = (\E q \in 0..(probe_nbits_max - 1) : q \notin DOMAIN probe_qubit_to_pos)
    /\ ppc' = "ready"
    /\ UNCHANGED <<probe_nbits_max, probe_q, probe_qubit_to_pos>>
    /\ UNCHANGED <<codecVars, decodeVars, kernelVars, jobVars>>

ProbeNext == ProbeStart \/ ProbeWire \/ ProbeReturn \/ MainFallback

(***************************************************************************)
(* grover_kernel.py: the program under construction.                       *)
(*                                                                         *)
(* Every function of the kernel appends gates to the QProg it is handed.   *)
(* Its model is the fragment it appends: [gates, err, cmz_at], the gates   *)
(* in order, the exception the call ends with (NoError if it returns) and, *)
(* as a ghost, the positions in gates at which a _cmz call begins.  A      *)
(* fragment that ends with an exception holds the gates appended before    *)
(* the raise; nothing follows it, as the exception propagates.             *)
(* Angles are written in units of pi/4.                                    *)
(***************************************************************************)
PI == 4

NoError == [kind |-> "none", need |-> 0, got |-> 0]

\* raise ValueError(f"not enough ancillas for cmz: need {need}, got {len(ancillas)}")
NotEnoughAncillas(need, got) ==
    [kind |-> "not enough ancillas for cmz", need |-> need, got |-> got]

\* raise ValueError("active_nbits must be <= nbits_max (measured bits)")
ActiveExceedsMeasured ==
    [kind |-> "active_nbits must be <= nbits_max (measured bits)", need |-> 0, got |-> 0]

\* prog = QProg()
QProg == [gates |-> <<>>, err |-> NoError, cmz_at |-> {}]

\* prog << g
Emit(g) == [gates |-> <<g>>, err |-> NoError, cmz_at |-> {}]

\* raise e
Raise(e) == [gates |-> <<>>, err |-> e, cmz_at |-> {}]

\* f1 then f2: f2 runs only if f1 returned
Then(f1, f2) ==
    IF f1.err # NoError THEN f1
    ELSE [gates  |-> f1.gates \o f2.gates,
          err    |-> f2.err,
          cmz_at |-> f1.cmz_at \cup {Len(f1.gates) + i : i \in f2.cmz_at}]

RECURSIVE Block(_)
\* the statements fs, in order
Block(fs) == IF fs = <<>> THEN QProg ELSE Then(Head(fs), Block(Tail(fs)))

\* s[i] of a Python list
At(s, i) == s[i + 1]

\* list(range(a, a + k))
Range(a, k) == [i \in 1..Max(0, k) |-> a + i - 1]

\* s[:k] for k >= 0
Prefix(s, k) == SubSeq(s, 1, Min(Max(0, k), Len(s)))

\* the native gates
_u3(q, theta, phi, lam) ==
    [op |-> "U3", q |-> q, theta |-> theta, phi |-> phi, lam |-> lam]
CZ(c, t) == [op |-> "CZ", c |-> c, t |-> t]
measure(q, c) == [op |-> "measure", q |-> q, c |-> c]

_rz(q, lam) == _u3(q, 0, 0, lam)
_x(q) == _u3(q, PI, 0, PI)
_z(q) == _rz(q, PI)
_h(q) == _u3(q, PI \div 2, 0, PI)
_t(q) == _rz(q, PI \div 4)
_tdg(q) == _rz(q, -(PI \div 4))

\* CNOT(c,t) = H(t) - CZ(c,t) - H(t)
_cnot(c, t) == Block(<<Emit(_h(t)), Emit(CZ(c, t)), Emit(_h(t))>>)

_ccx_t_for_tdg(a, b, t) ==
    Block(<<Emit(_h(t)),
            _cnot(b, t), Emit(_tdg(t)),
            _cnot(a, t), Emit(_t(t)),
            _cnot(b, t), Emit(_t(t)),
            _cnot(a, t), Emit(_t(b)), Emit(_t(t)),
            Emit(_h(t)),
            _cnot(a, b), Emit(_t(a)), Emit(_tdg(b)), _cnot(a, b)>>)

\* Toffoli: H(t); CNOT(b,t); Tdg(t); CNOT(a,t); T(t); CNOT(b,t); Tdg(t);
\* CNOT(a,t); T(b); T(t); H(t); CNOT(a,b); T(a); Tdg(b); CNOT(a,b)
_ccx(a, b, t) ==
    Block(<<Emit(_h(t)),
            _cnot(b, t), Emit(_tdg(t)),
            _cnot(a, t), Emit(_t(t)),
            _cnot(b, t), Emit(_tdg(t)),
            _cnot(a, t), Emit(_t(b)), Emit(_t(t)),
            Emit(_h(t)),
            _cnot(a, b), Emit(_t(a)), Emit(_tdg(b)), _cnot(a, b)>>)

RECURSIVE cmz_compute(_, _, _, _)
\* for i in range(2, m): _ccx(prog, ancillas[i - 2], controls[i], ancillas[i - 1])
cmz_compute(controls, ancillas, i, m) ==
    IF i >= m THEN QProg
    ELSE Then(_ccx(At(ancillas, i - 2), At(controls, i), At(ancillas, i - 1)),
              cmz_compute(controls, ancillas, i + 1, m))

RECURSIVE cmz_uncompute(_, _, _)
\* for i in range(m - 1, 1, -1): _ccx(prog, ancillas[i - 2], controls[i], ancillas[i - 1])
cmz_uncompute(controls, ancillas, i) ==
    IF i <= 1 THEN QProg
    ELSE Then(_ccx(At(ancillas, i - 2), At(controls, i), At(ancillas, i - 1)),
              cmz_uncompute(controls, ancillas, i - 1))

\* ghost: a _cmz call begins at the first position of its fragment
CmzCall(f) == [f EXCEPT !.cmz_at = @ \cup {1}]

_cmz_no_uncompute(controls, target, ancillas) ==
    LET m    == Len(controls)
        need == m - 1
    IN  CmzCall(
        IF m = 0 THEN Emit(_z(target))
        ELSE IF m = 1 THEN Emit(CZ(At(controls, 0), target))
        ELSE IF Len(ancillas) < need THEN Raise(NotEnoughAncillas(need, Len(ancillas)))
        ELSE Block(<<_ccx(At(controls, 0), At(controls, 1), At(ancillas, 0)),
                     cmz_compute(controls, ancillas, 2, m),
                     Emit(CZ(At(ancillas, need - 1), target))>>))

_cmz_first_ancilla(controls, target, ancillas) ==
    LET m    == Len(controls)
        need == m - 1
    IN  CmzCall(
        IF m = 0 THEN Emit(_z(target))
        ELSE IF m = 1 THEN Emit(CZ(At(controls, 0), target))
        ELSE IF Len(ancillas) < need THEN Raise(NotEnoughAncillas(need, Len(ancillas)))
        ELSE Block(<<_ccx(At(controls, 0), At(controls, 1), At(ancillas, 0)),
                     cmz_compute(controls, ancillas, 2, m),
                     Emit(CZ(At(ancillas, 0), target)),
                     cmz_uncompute(controls, ancillas, m - 1),
                     _ccx(At(controls, 0), At(controls, 1), At(ancillas, 0))>>))

_cmz_late_check(controls, target, ancillas) ==
    LET m    == Len(controls)
        need == m - 1
    IN  CmzCall(
        IF m = 0 THEN Emit(_z(target))
        ELSE IF m = 1 THEN Emit(CZ(At(controls, 0), target))
        ELSE IF Len(ancillas) = 0 THEN Raise(NotEnoughAncillas(need, Len(ancillas)))
        ELSE Block(<<_ccx(At(controls, 0), At(controls, 1), At(ancillas, 0)),
                     IF Len(ancillas) < need
                     THEN Raise(NotEnoughAncillas(need, Len(ancillas)))
                     ELSE Block(<<cmz_compute(controls, ancillas, 2, m),
                                  Emit(CZ(At(ancillas, need - 1), target)),
                                  cmz_uncompute(controls, ancillas, m - 1),
                                  _ccx(At(controls, 0), At(controls, 1), At(ancillas, 0))>>)>>))

\* multi-controlled Z on target: Z, CZ, or the Toffoli ladder on the ancillas
_cmz(controls, target, ancillas) ==
    LET m    == Len(controls)
        need == m - 1
    IN  CmzCall(
        IF m = 0 THEN Emit(_z(target))
        ELSE IF m = 1 THEN Emit(CZ(At(controls, 0), target))
        ELSE IF Len(ancillas) < need THEN Raise(NotEnoughAncillas(need, Len(ancillas)))
        ELSE Block(<<_ccx(At(controls, 0), At(controls, 1), At(ancillas, 0)),
                     cmz_compute(controls, ancillas, 2, m),
                     Emit(CZ(At(ancillas, need - 1), target)),
                     cmz_uncompute(controls, ancillas, m - 1),
                     _ccx(At(controls, 0), At(controls, 1), At(ancillas, 0))>>))

(***************************************************************************)
(* Grover building blocks.                                                 *)
(***************************************************************************)
_bits_of_int_msb_first(x, n) == [k \in 1..n |-> BitAnd(Shr(x, n - k), 1)]

\* [(x >> i) & 1 for i in range(n)], element i for qubit i
_bits_of_int(x, n) == [k \in 1..n |-> BitAnd(Shr(x, k - 1), 1)]

RECURSIVE x_on_zero_bits(_, _, _)
\* for qi, bi in zip(active_qubits, bits): if bi == 0: prog << _x(qi)
x_on_zero_bits(active_qubits, bits, k) ==
    IF k >= Min(Len(active_qubits), Len(bits)) THEN QProg
    ELSE Then(IF At(bits, k) = 0 THEN Emit(_x(At(active_qubits, k))) ELSE QProg,
              x_on_zero_bits(active_qubits, bits, k + 1))

RECURSIVE on_each(_, _, _)
\* for q in qs: prog << gate(q), with gate one of "h", "x"
on_each(qs, gate, k) ==
    IF k >= Len(qs) THEN QProg
    ELSE Then(Emit(IF gate = "h" THEN _h(At(qs, k)) ELSE _x(At(qs, k))),
              on_each(qs, gate, k + 1))

\* n == 1: phase flip on |1> after optional X for target = 0
oracle_one_qubit(q, t) ==
    IF BitAnd(t, 1) = 0
    THEN Block(<<Emit(_x(q)), Emit(_z(q)), Emit(_x(q))>>)
    ELSE Emit(_z(q))

\* n >= 2: X on the zero bits of t, C^{n-1}Z, the same X again
oracle_one_target(active_qubits, anc_use, t) ==
    LET n        == Len(active_qubits)
        controls == Prefix(active_qubits, n - 1)
        target_q == At(active_qubits, n - 1)
        bits     == _bits_of_int(t, n)
    IN  Block(<<x_on_zero_bits(active_qubits, bits, 0),
                _cmz(controls, target_q, anc_use),
                x_on_zero_bits(active_qubits, bits, 0)>>)

RECURSIVE oracle_targets_absorbing(_, _, _, _)
\* a loop that marks each distinct target once, skipping a repeated one
oracle_targets_absorbing(active_qubits, anc_use, targets, k) ==
    IF k >= Len(targets) THEN QProg
    ELSE Then(IF \E j \in 0..(k - 1) : At(targets, j) = At(targets, k) THEN QProg
              ELSE IF Len(active_qubits) = 1
              THEN oracle_one_qubit(At(active_qubits, 0), At(targets, k))
              ELSE oracle_one_target(active_qubits, anc_use, At(targets, k)),
              oracle_targets_absorbing(active_qubits, anc_use, targets, k + 1))

RECURSIVE oracle_targets(_, _, _, _)
\* for t in targets: ...
oracle_targets(active_qubits, anc_use, targets, k) ==
    IF k >= Len(targets) THEN QProg
    ELSE Then(IF Len(active_qubits) = 1
              THEN oracle_one_qubit(At(active_qubits, 0), At(targets, k))
              ELSE oracle_one_target(active_qubits, anc_use, At(targets, k)),
              oracle_targets(active_qubits, anc_use, targets, k + 1))

_oracle_phase_flip(active_qubits, ancillas, targets) ==
    LET n        == Len(active_qubits)
        need_anc == Max(0, (n - 1) - 1)
        anc_use  == Prefix(ancillas, need_anc)
    IN  IF n = 0 THEN QProg
        ELSE oracle_targets(active_qubits, anc_use, targets, 0)

\* diffusion: H^n X^n C^{n-1}Z X^n H^n
_diffusion(active_qubits, ancillas) ==
    LET n        == Len(active_qubits)
        q0       == At(active_qubits, 0)
        controls == Prefix(active_qubits, n - 1)
        target_q == At(active_qubits, n - 1)
        need_anc == Max(0, Len(controls) - 1)
        anc_use  == Prefix(ancillas, need_anc)
    IN  IF n = 0 THEN QProg
        ELSE IF n = 1
        THEN Block(<<Emit(_h(q0)), Emit(_x(q0)), Emit(_z(q0)), Emit(_x(q0)), Emit(_h(q0))>>)
        ELSE Block(<<on_each(active_qubits, "h", 0),
                     on_each(active_qubits, "x", 0),
                     _cmz(controls, target_q, anc_use),
                     on_each(active_qubits, "x", 0),
                     on_each(active_qubits, "h", 0)>>)

RECURSIVE grover_iterations(_, _, _, _)
\* for _ in range(int(grover_iters)): oracle, then diffusion
grover_iterations(active_qubits, ancillas, targets, r) ==
    IF r <= 0 THEN QProg
    ELSE Block(<<_oracle_phase_flip(active_qubits, ancillas, targets),
                 _diffusion(active_qubits, ancillas),
                 grover_iterations(active_qubits, ancillas, targets, r - 1)>>)

RECURSIVE measure_all(_, _)
\* for i in range(nbits_max): prog << measure(i, i)
measure_all(i, nbits_max) ==
    IF i >= nbits_max THEN QProg
    ELSE Then(Emit(measure(i, i)), measure_all(i + 1, nbits_max))

build_ancillas_below(n_arg, nbits_max, ancilla_start) ==
    LET n          == Max(1, n_arg)
        start      == IF ancilla_start = <<>> THEN nbits_max - 1 ELSE ancilla_start[1]
        anc_needed == Max(0, n - 2)
    IN  Range(start, anc_needed)

\* the ancilla wires build_grover_prog hands to the oracle and the diffusion;
\* ancilla_start is <<>> for None and <<a>> for the caller's value a
build_ancillas(n_arg, nbits_max, ancilla_start) ==
    LET n          == Max(1, n_arg)
        start      == IF ancilla_start = <<>> THEN nbits_max ELSE ancilla_start[1]
        anc_needed == Max(0, n - 2)
    IN  Range(start, anc_needed)

build_grover_prog_measure_active(n_arg, nbits_max, targets, grover_iters, ancilla_start) ==
    LET n             == Max(1, n_arg)
        active_qubits == Range(0, n)
        ancillas      == build_ancillas(n_arg, nbits_max, ancilla_start)
    IN  IF n > nbits_max THEN Raise(ActiveExceedsMeasured)
        ELSE Block(<<on_each(active_qubits, "h", 0),
                     grover_iterations(active_qubits, ancillas, targets, grover_iters),
                     measure_all(0, n)>>)

build_grover_prog_short_ancillas(n_arg, nbits_max, targets, grover_iters, ancilla_start) ==
    LET n             == Max(1, n_arg)
        active_qubits == Range(0, n)
        ancillas      == Prefix(build_ancillas(n_arg, nbits_max, ancilla_start), n - 3)
    IN  IF n > nbits_max THEN Raise(ActiveExceedsMeasured)
        ELSE Block(<<on_each(active_qubits, "h", 0),
                     grover_iterations(active_qubits, ancillas, targets, grover_iters),
                     measure_all(0, nbits_max)>>)

build_grover_prog(n_arg, nbits_max, targets, grover_iters, ancilla_start) ==
    LET n             == Max(1, n_arg)
        active_qubits == Range(0, n)
        ancillas      == build_ancillas(n_arg, nbits_max, ancilla_start)
    IN  IF n > nbits_max THEN Raise(ActiveExceedsMeasured)
        ELSE Block(<<on_each(active_qubits, "h", 0),
                     grover_iterations(active_qubits, ancillas, targets, grover_iters),
                     measure_all(0, nbits_max)>>)

(***************************************************************************)
(* Exact simulation of U3 and CZ.                                          *)
(*                                                                         *)
(* With w = e^{i pi/4}, an amplitude is (a0 + a1 w + a2 w^2 + a3 w^3) /    *)
(* sqrt(2)^k, kept as the tuple <<a0, a1, a2, a3>> and an exponent k that  *)
(* is common to the whole register.  A register state is [k, amp] where    *)
(* amp maps each basis state of non-zero amplitude (an integer whose bit q *)
(* is the value of wire q) to its tuple; k is as small as possible.        *)
(***************************************************************************)
Zero == <<0, 0, 0, 0>>
One  == <<1, 0, 0, 0>>

AmpAdd(a, b) == [i \in 1..4 |-> a[i] + b[i]]
AmpNeg(a) == [i \in 1..4 |-> -a[i]]

\* a * w^j, with w^4 = -1
MulOmega(a, j) ==
    LET jj == j % 8
    IN  [r1 \in 1..4 |->
            LET i == ((r1 - 1) - jj) % 4
            IN  IF ((i + jj) \div 4) % 2 = 0 THEN a[i + 1] ELSE -a[i + 1]]

\* sqrt(2) = w - w^3 divides a
DivisibleBySqrt2(a) == (a[2] - a[4]) % 2 = 0 /\ (a[1] + a[3]) % 2 = 0

\* a / sqrt(2)
DivSqrt2(a) ==
    <<(a[2] - a[4]) \div 2, (a[1] + a[3]) \div 2, (a[2] + a[4]) \div 2, (a[3] - a[1]) \div 2>>

RECURSIVE Normalize(_)
Normalize(st) ==
    IF st.k > 0 /\ \A x \in DOMAIN st.amp : DivisibleBySqrt2(st.amp[x])
    THEN Normalize([k |-> st.k - 1, amp |-> [x \in DOMAIN st.amp |-> DivSqrt2(st.amp[x])]])
    ELSE st

\* the basis state x with amplitude 1
Ket(x) == [k |-> 0, amp |-> [y \in {x} |-> One]]

BitOf(x, q) == (x \div Pow2(q)) % 2
WithBit(x, q, v) == x - BitOf(x, q) * Pow2(q) + v * Pow2(q)

\* U3(theta, phi, lam) =  [ cos(theta/2)            -e^{i lam} sin(theta/2)      ]
\*                        [ e^{i phi} sin(theta/2)   e^{i(phi+lam)} cos(theta/2) ]
\* for theta in {0, pi/2, pi}: the power of w in row r, column c, or -1 for a
\* zero entry; for theta = pi/2 every entry carries the factor 1/sqrt(2)
U3Entry(g, r, c) ==
    LET cos_nz == g.theta \in {0, PI \div 2}
        sin_nz == g.theta \in {PI \div 2, PI}
    IN  IF r = 0 /\ c = 0 THEN (IF cos_nz THEN 0 ELSE -1)
        ELSE IF r = 0 /\ c = 1 THEN (IF sin_nz THEN (g.lam + PI) % 8 ELSE -1)
        ELSE IF r = 1 /\ c = 0 THEN (IF sin_nz THEN g.phi % 8 ELSE -1)
        ELSE (IF cos_nz THEN (g.phi + g.lam) % 8 ELSE -1)

ApplyU3(st, g) ==
    LET old(x)     == IF x \in DOMAIN st.amp THEN st.amp[x] ELSE Zero
        term(y, c) == LET e == U3Entry(g, BitOf(y, g.q), c)
                      IN  IF e < 0 THEN Zero ELSE MulOmega(old(WithBit(y, g.q, c)), e)
        new(y)     == AmpAdd(term(y, 0), term(y, 1))
        cand       == DOMAIN st.amp \cup {WithBit(x, g.q, 1 - BitOf(x, g.q)) : x \in DOMAIN st.amp}
        supp       == {y \in cand : new(y) # Zero}
    IN  Normalize([k   |-> st.k + (IF g.theta = PI \div 2 THEN 1 ELSE 0),
                   amp |-> [y \in supp |-> new(y)]])

\* CZ = diag(1, 1, 1, -1) on the two wires
ApplyCZ(st, g) ==
    [st EXCEPT !.amp = [x \in DOMAIN st.amp |->
        IF BitOf(x, g.c) = 1 /\ BitOf(x, g.t) = 1 THEN AmpNeg(st.amp[x]) ELSE st.amp[x]]]

(***************************************************************************)
(* SpecSim: a gate list is emitted by one call of the kernel and then      *)
(* applied, gate by gate, to a basis state.                                *)
(***************************************************************************)
\* ghost record of a call: the function and its arguments (input is the basis
\* state the simulator starts from; ancilla_start is <<>> for None)
NoCall ==
    [fn |-> "none", wires |-> <<>>, target |-> 0, ancillas |-> <<>>, targets |-> <<>>,
     iters |-> 0, nbits_max |-> 0, active_nbits |-> 0, ancilla_start |-> <<>>, input |-> 0]

KernelIdle ==
    /\ kpc = "idle" /\ prog = <<>> /\ err = NoError /\ cmz_at = {}
    /\ call = NoCall /\ before = <<>> /\ ip = 1 /\ psi = Ket(0)

\* hand the emitted gate list to the simulator, the register in basis state x
Load(p, c) ==
    /\ prog' = p.gates
    /\ err' = p.err
    /\ cmz_at' = p.cmz_at
    /\ call' = c
    /\ before' = <<>>
    /\ ip' = 1
    /\ psi' = Ket(c.input)
    /\ kpc' = "running"
    /\ UNCHANGED <<codecVars, decodeVars, cloudVars>>

\* lists of length 0..k over S
ListsUpTo(S, k) == UNION {[1..L -> S] : L \in 0..k}

\* targets of an n-bit register tried in whole builds: all bits 0, only bit 0
\* set, only bit 0 clear, all bits 1
TargetValues(n) == {0, 1, Pow2(n) - 2, Pow2(n) - 1} \cap (0..(Pow2(n) - 1))

\* _ccx(prog, a, b, t) on three distinct wires, every basis input
SimCcx ==
    /\ kpc = "idle"
    /\ \E a \in 0..2, b \in 0..2, t \in 0..2, x \in 0..7 :
        /\ a # b /\ a # t /\ b # t
        /\ Load(_ccx(a, b, t),
                [NoCall EXCEPT !.fn = "_ccx", !.wires = <<a, b>>, !.target = t, !.input = x])

\* _cmz with m controls on wires 0..m-1, the target on wire m and m-1
\* ancillas, all 0, above it; every basis input of controls and target
SimCmz ==
    /\ kpc = "idle"
    /\ \E m \in 0..MaxControls :
        \E x \in 0..(Pow2(m + 1) - 1) :
            LET controls == Range(0, m)
                ancillas == Range(m + 1, m - 1)
            IN  Load(_cmz(controls, m, ancillas),
                     [NoCall EXCEPT !.fn = "_cmz", !.wires = controls, !.target = m,
                                    !.ancillas = ancillas, !.input = x])

\* the oracle for one target t on n active wires, ancillas at n.., every
\* basis input of the active register
SimOracle ==
    /\ kpc = "idle"
    /\ \E n \in 1..MaxActive :
        \E t \in 0..(Pow2(n) - 1), x \in 0..(Pow2(n) - 1) :
            LET active   == Range(0, n)
                ancillas == Range(n, n - 2)
            IN  Load(_oracle_phase_flip(active, ancillas, <<t>>),
                     [NoCall EXCEPT !.fn = "_oracle_phase_flip", !.wires = active,
                                    !.ancillas = ancillas, !.targets = <<t>>, !.input = x])

\* targets of an n-bit register tried in target lists: all bits 0, only bit 0
\* set, all bits 1
ListTargetValues(n) == {0, 1, Pow2(n) - 1} \cap (0..(Pow2(n) - 1))

\* the oracle for a list of targets (empty, repeated or distinct entries) on n
\* active wires, ancillas at n.., every basis input of the active register
SimOracleList ==
    /\ kpc = "idle"
    /\ \E n \in 1..MaxListActive :
        \E targets \in ListsUpTo(ListTargetValues(n), MaxListTargets),
           x \in 0..(Pow2(n) - 1) :
            LET active   == Range(0, n)
                ancillas == Range(n, n - 2)
            IN  /\ Len(targets) # 1
                /\ Load(_oracle_phase_flip(active, ancillas, targets),
                        [NoCall EXCEPT !.fn = "_oracle_phase_flip", !.wires = active,
                                       !.ancillas = ancillas, !.targets = targets,
                                       !.input = x])

\* a whole program of build_grover_prog with the default ancilla_start, run
\* from |0...0>
SimBuild ==
    /\ kpc = "idle"
    /\ \E n \in 1..MaxRunActive, r \in 0..MaxRunIters :
        \E W \in n..(n + 1), targets \in ListsUpTo(TargetValues(n), MaxRunTargets) :
            Load(build_grover_prog(n, W, targets, r, <<>>),
                 [NoCall EXCEPT !.fn = "build_grover_prog", !.wires = Range(0, n),
                                !.ancillas = build_ancillas(n, W, <<>>),
                                !.targets = targets, !.iters = r, !.nbits_max = W,
                                !.active_nbits = n])

StepU3 ==
    /\ kpc = "running" /\ ip <= Len(prog) /\ prog[ip].op = "U3"
    /\ psi' = ApplyU3(psi, prog[ip])
    /\ ip' = ip + 1
    /\ UNCHANGED <<kpc, prog, err, cmz_at, call, before, codecVars, decodeVars, cloudVars>>

StepCZ ==
    /\ kpc = "running" /\ ip <= Len(prog) /\ prog[ip].op = "CZ"
    /\ psi' = ApplyCZ(psi, prog[ip])
    /\ ip' = ip + 1
    /\ UNCHANGED <<kpc, prog, err, cmz_at, call, before, codecVars, decodeVars, cloudVars>>

\* a measurement declaration: the register is read out when the program ends
StepMeasure ==
    /\ kpc = "running" /\ ip <= Len(prog) /\ prog[ip].op = "measure"
    /\ ip' = ip + 1
    /\ UNCHANGED <<kpc, prog, err, cmz_at, call, before, psi, codecVars, decodeVars, cloudVars>>

SimEnd ==
    /\ kpc = "running" /\ ip > Len(prog)
    /\ kpc' = "done"
    /\ UNCHANGED <<prog, err, cmz_at, call, before, ip, psi, codecVars, decodeVars, cloudVars>>

SimNext ==
    \/ SimCcx \/ SimCmz \/ SimOracle \/ SimOracleList \/ SimBuild
    \/ StepU3 \/ StepCZ \/ StepMeasure \/ SimEnd

SimInit == CodecIdle /\ DecodeIdle /\ KernelIdle /\ CloudIdle
SpecSim == SimInit /\ [][SimNext]_vars

(***************************************************************************)
(* SpecCodec and SpecDecode.                                               *)
(***************************************************************************)
CodecSpecInit == CodecInit /\ DecodeIdle /\ KernelIdle /\ CloudIdle
SpecCodec == CodecSpecInit /\ [][CodecNext]_vars

DecodeSpecInit == CodecIdle /\ DecodeInit /\ KernelIdle /\ CloudIdle
SpecDecode == DecodeSpecInit /\ [][DecodeNext]_vars

(***************************************************************************)
(* SpecJob and SpecProbe.  SpecJobFair adds that the function keeps        *)
(* running: a call it makes returns or raises, a sleep ends.               *)
(***************************************************************************)
\* the clock shows any time when the function is called
JobInit ==
    /\ jpc = "idle" /\ clock \in 0..1 /\ t0 = 0
    /\ max_poll_sec = 0 /\ poll_interval_sec = 0
    /\ job_status = "none" /\ polls = 0
    /\ ret = PyNone /\ exc = PyNone /\ rec = PyNone

JobSpecInit == CodecIdle /\ DecodeIdle /\ KernelIdle /\ JobInit /\ ProbeIdle
SpecJob == JobSpecInit /\ [][JobNext]_vars
SpecJobFair == SpecJob /\ WF_vars(JobNext)

ProbeSpecInit == CodecIdle /\ DecodeIdle /\ KernelIdle /\ CloudIdle
SpecProbe == ProbeSpecInit /\ [][ProbeNext]_vars

(***************************************************************************)
(* SpecBuild: the builder.  Either build_grover_prog assembles a whole     *)
(* program, or a program is opened with the H layer and one of _cmz,       *)
(* _oracle_phase_flip, _diffusion is called on it with any number of       *)
(* ancillas.                                                               *)
(***************************************************************************)
\* the call f made on the program: its gates are appended, its exception is
\* in flight
Append_call(f, c) ==
    /\ before' = prog
    /\ prog' = prog \o f.gates
    /\ err' = f.err
    /\ cmz_at' = {Len(prog) + i : i \in f.cmz_at}
    /\ call' = c
    /\ kpc' = IF f.err # NoError THEN "raised" ELSE "returned"
    /\ UNCHANGED <<ip, psi, codecVars, decodeVars, cloudVars>>

\* ancilla_start: None, or wire 0, or a wire next to the measured width
AncillaStarts(W) == {<<>>} \cup {<<a>> : a \in {0} \cup (Max(0, W - 1)..(W + 1))}

BuildGroverProg ==
    /\ kpc = "idle"
    /\ \E n \in 0..MaxBuildActive, r \in 0..MaxBuildIters :
        \E W \in Max(0, n - 1)..(n + 1) :
            \E targets \in ListsUpTo(TargetValues(Max(1, n)), MaxBuildTargets),
               ancilla_start \in AncillaStarts(W) :
                Append_call(build_grover_prog(n, W, targets, r, ancilla_start),
                    [NoCall EXCEPT !.fn = "build_grover_prog", !.wires = Range(0, Max(1, n)),
                                   !.ancillas = build_ancillas(n, W, ancilla_start),
                                   !.targets = targets, !.iters = r, !.nbits_max = W,
                                   !.active_nbits = n, !.ancilla_start = ancilla_start])

\* prog = QProg(); for q in active_qubits: prog << _h(q)
OpenProg ==
    /\ kpc = "idle"
    /\ \E n \in 0..MaxBuildActive :
        /\ prog' = on_each(Range(0, n), "h", 0).gates
        /\ call' = [NoCall EXCEPT !.fn = "open", !.wires = Range(0, n)]
        /\ kpc' = "open"
        /\ UNCHANGED <<err, cmz_at, before, ip, psi, codecVars, decodeVars, cloudVars>>

\* ancillas n.., any number of them
AncillaLists(n) == {Range(n, k) : k \in 0..MaxBuildActive}

CallCmz ==
    /\ kpc = "open"
    /\ \E m \in 0..MaxBuildActive :
        \E ancillas \in AncillaLists(m + 1) :
            Append_call(_cmz(Range(0, m), m, ancillas),
                [NoCall EXCEPT !.fn = "_cmz", !.wires = Range(0, m), !.target = m,
                               !.ancillas = ancillas])

CallOracle ==
    /\ kpc = "open"
    /\ \E ancillas \in AncillaLists(Len(call.wires)),
          targets \in ListsUpTo(TargetValues(Len(call.wires)), MaxBuildTargets) :
            Append_call(_oracle_phase_flip(call.wires, ancillas, targets),
                [NoCall EXCEPT !.fn = "_oracle_phase_flip", !.wires = call.wires,
                               !.ancillas = ancillas, !.targets = targets])

CallDiffusion ==
    /\ kpc = "open"
    /\ \E ancillas \in AncillaLists(Len(call.wires)) :
            Append_call(_diffusion(call.wires, ancillas),
                [NoCall EXCEPT !.fn = "_diffusion", !.wires = call.wires,
                               !.ancillas = ancillas])

BuildNext == BuildGroverProg \/ OpenProg \/ CallCmz \/ CallOracle \/ CallDiffusion

BuildInit == CodecIdle /\ DecodeIdle /\ KernelIdle /\ CloudIdle
SpecBuild == BuildInit /\ [][BuildNext]_vars

(***************************************************************************)
(* Properties.                                                             *)
(***************************************************************************)

\* C1 (block codec round trip): for every block width b >= 1 and every
\* global id, the plan's block id is global >> b, its local index lies in
\* [0, 2^b), and the runner's (block_id << b) | local is the global id again.
C1_BlockCodecRoundTrip ==
    /\ cpc \in {"planned", "analyzed"} =>
        /\ block_bits >= 1
        /\ Len(local_targets) = 1
        /\ local_targets[1] >= 0 /\ local_targets[1] < Pow2(block_bits)
        /\ block_id = rep_target \div Pow2(block_bits)
        /\ block_id * Pow2(block_bits) + local_targets[1] = rep_target
    /\ cpc = "analyzed" => top_global = rep_target

\* C1 witness: a round trip with a non-zero block id and a non-zero local index
C1_Witness ==
    cpc = "analyzed" /\ block_bits = 4 /\ block_id = 3 /\ local_targets = <<5>>
    /\ top_global = 53

\* the bit the decoder is to produce for wire i
ExpectedBit(i) ==
    IF /\ i \in DOMAIN qubit_to_pos
       /\ qubit_to_pos[i] >= 0
       /\ qubit_to_pos[i] < Len(bitstr)
       /\ bitstr[qubit_to_pos[i] + 1] = "1"
    THEN 1 ELSE 0

\* C6 (bit-position decoding): the returned index has, for i in [0, n), bit i
\* equal to bitstring[mapping[i]] where mapping[i] is defined and inside the
\* string and 0 elsewhere, and no bit at or above n; the loop always returns.
C6_DecodeIndexBits ==
    /\ dpc \in {"loop", "returned"}
    /\ dpc = "returned" =>
        /\ \A i \in 0..(active_nbits - 1) : (idx \div Pow2(i)) % 2 = ExpectedBit(i)
        /\ idx >= 0 /\ idx < Pow2(active_nbits)

\* C6 witness: three wires, wire 0 unmapped, wire 1 mapped below the string,
\* wire 2 mapped to a '1'
C6_Witness ==
    /\ dpc = "returned" /\ active_nbits = 3
    /\ DOMAIN qubit_to_pos = {1, 2}
    /\ qubit_to_pos[1] = -1 /\ qubit_to_pos[2] = 0
    /\ bitstr = <<"1", "1">>
    /\ idx = 4

\* the basis state x with amplitude -1
MinusKet(x) == [k |-> 0, amp |-> [y \in {x} |-> AmpNeg(One)]]

\* every ancilla wire of the call is 0 in every basis state of the register
AncillasZero ==
    \A x \in DOMAIN psi.amp :
        \A i \in 1..Len(call.ancillas) : BitOf(x, call.ancillas[i]) = 0

\* every wire in ws is 1 in basis state x
AllOnes(x, ws) == \A i \in 1..Len(ws) : BitOf(x, ws[i]) = 1

\* C5 (Toffoli synthesis): the gate list of _ccx(a, b, t) maps each of the 8
\* basis inputs to the basis state with t replaced by t XOR (a AND b), with
\* the same phase, 1, for all of them.
C5_ToffoliTruthTable ==
    (kpc = "done" /\ call.fn = "_ccx") =>
        LET a == call.wires[1]
            b == call.wires[2]
            t == call.target
            x == call.input
            out == WithBit(x, t, (BitOf(x, t) + BitOf(x, a) * BitOf(x, b)) % 2)
        IN  psi = Ket(out)

\* C5 witness: both controls 1, the target flipped from 0 to 1
C5_Witness ==
    /\ kpc = "done" /\ call.fn = "_ccx"
    /\ call.wires = <<2, 0>> /\ call.target = 1 /\ call.input = 5
    /\ psi = Ket(7)

\* C3 as claimed: _cmz is the identity when some control is 0 and multiplies
\* the basis state by -1 when all controls are 1, whatever the target is.
C3_Original_FlipIndependentOfTarget ==
    (kpc = "done" /\ call.fn = "_cmz") =>
        psi = IF AllOnes(call.input, call.wires)
              THEN MinusKet(call.input) ELSE Ket(call.input)

\* C3 (amended): _cmz with m in 0..MaxControls controls and max(0, m-1)
\* ancillas at 0 is the identity on every basis state in which a control or
\* the target is 0, and multiplies the basis state by -1 exactly when all
\* controls and the target are 1.
C3_CmzPhaseFlip ==
    (kpc = "done" /\ call.fn = "_cmz") =>
        psi = IF AllOnes(call.input, call.wires) /\ BitOf(call.input, call.target) = 1
              THEN MinusKet(call.input) ELSE Ket(call.input)

\* C3 witness: three controls, all 1, and the target 0: unchanged
C3_Witness ==
    /\ kpc = "done" /\ call.fn = "_cmz"
    /\ Len(call.wires) = 3 /\ call.input = 7
    /\ psi = Ket(7)

\* C2 (ancilla borrow/return): a _cmz call with m >= 2 controls that finds
\* its ancillas at 0 leaves them at 0 on every basis input; and in a run of a
\* program of build_grover_prog with the default ancilla_start the ancillas
\* are 0 whenever a _cmz call begins, at every measurement and at the end.
C2_AncillasReturned ==
    /\ (kpc = "done" /\ call.fn = "_cmz") => AncillasZero
    /\ ( /\ kpc \in {"running", "done"}
         /\ call.fn \in {"build_grover_prog", "_oracle_phase_flip"}
         /\ (ip \in cmz_at \/ ip > Len(prog) \/ prog[ip].op = "measure") ) => AncillasZero

\* C2 witness: a built program on three active wires, one target and two
\* iterations has reached its fourth _cmz call (oracle, diffusion, oracle,
\* diffusion), all on the same ancilla
C2_Witness ==
    /\ kpc = "running" /\ call.fn = "build_grover_prog"
    /\ Len(call.ancillas) = 1 /\ Len(call.targets) = 1 /\ call.iters = 2
    /\ ip \in cmz_at
    /\ Cardinality({j \in cmz_at : j < ip}) = 3
    /\ AncillasZero

\* C4 (oracle marking): for n in 1..MaxActive and t in [0, 2^n), the oracle
\* for the single target t multiplies basis state t by -1 and leaves every
\* other basis state of the active register as it is, bit i of t being the
\* value of active wire i.
C4_OracleMarksTarget ==
    (kpc = "done" /\ call.fn = "_oracle_phase_flip" /\ Len(call.targets) = 1) =>
        psi = IF call.input = call.targets[1]
              THEN MinusKet(call.input) ELSE Ket(call.input)

\* C4 witness: four active wires, target 1 (wire 0 set), input 1: flipped
C4_Witness ==
    /\ kpc = "done" /\ call.fn = "_oracle_phase_flip"
    /\ Len(call.wires) = 4 /\ call.targets = <<1>> /\ call.input = 1
    /\ psi = MinusKet(1)

\* the number of times s occurs in the list
Occurrences(list, s) == Cardinality({i \in 1..Len(list) : list[i] = s})

\* C11 (oracle no-op and self-cancellation): for n in 1..MaxListActive and
\* every list of targets, the oracle multiplies basis state s by -1 if and
\* only if s occurs an odd number of times in the list and leaves it as it is
\* otherwise; an empty list appends no gate; the ancillas end at 0.
C11_OracleOddMultiplicity ==
    /\ (kpc \in {"running", "done"} /\ call.fn = "_oracle_phase_flip"
           /\ call.targets = <<>>) => prog = <<>>
    /\ (kpc = "done" /\ call.fn = "_oracle_phase_flip") =>
           psi = IF Occurrences(call.targets, call.input) % 2 = 1
                 THEN MinusKet(call.input) ELSE Ket(call.input)

\* C11 witness: three active wires, the target 1 listed twice, input 1: the
\* two phase flips have cancelled
C11_Witness ==
    /\ kpc = "done" /\ call.fn = "_oracle_phase_flip"
    /\ Len(call.wires) = 3 /\ call.targets = <<1, 1>> /\ call.input = 1
    /\ Len(prog) > 0
    /\ psi = Ket(1)

\* C11 witness, empty list: nothing was appended and the state is untouched
C11_WitnessEmpty ==
    /\ kpc = "done" /\ call.fn = "_oracle_phase_flip"
    /\ call.targets = <<>> /\ call.input = 5 /\ prog = <<>> /\ psi = Ket(5)

(***************************************************************************)
(* Properties of the builder (SpecBuild).                                  *)
(***************************************************************************)
SeqToSet(sq) == {sq[i] : i \in 1..Len(sq)}

\* the wires the gates of a program act on
GateWires(gs) ==
    UNION {IF gs[i].op = "U3" THEN {gs[i].q}
           ELSE IF gs[i].op = "CZ" THEN {gs[i].c, gs[i].t}
           ELSE {} : i \in 1..Len(gs)}

\* the wires a program declares a measurement on
MeasuredWires(gs) == {gs[i].q : i \in {j \in 1..Len(gs) : gs[j].op = "measure"}}

BuildReturned == kpc = "returned" /\ call.fn = "build_grover_prog"

\* the arguments of the build as the builder reads them
BuiltN     == Max(1, call.active_nbits)
BuiltStart == IF call.ancilla_start = <<>> THEN call.nbits_max ELSE call.ancilla_start[1]

\* the program ends with measure(0,0) .. measure(W-1,W-1) and declares no
\* measurement before them
EndsWithMeasurements ==
    LET W == call.nbits_max
        L == Len(prog)
    IN  /\ L >= W
        /\ \A i \in 1..W : prog[L - W + i] = measure(i - 1, i - 1)
        /\ \A j \in 1..(L - W) : prog[j].op # "measure"
        /\ \A q \in MeasuredWires(prog) : q < W

\* C7 as claimed: every built program ends with exactly W measurement
\* declarations, wire i to channel i, after every gate, and measures no
\* ancilla wire and no wire >= W.
C7_Original_NoAncillaMeasured ==
    BuildReturned =>
        /\ EndsWithMeasurements
        /\ SeqToSet(call.ancillas) \cap MeasuredWires(prog) = {}

\* C7 (amended): every built program ends with exactly W measurement
\* declarations, wire i to channel i for each i in [0, W), all after every
\* gate; no wire >= W is measured, and no ancilla wire is measured unless the
\* caller supplied an ancilla_start below W for n >= 3.
C7_MeasurementDeclarations ==
    BuildReturned =>
        /\ EndsWithMeasurements
        /\ (BuiltStart >= call.nbits_max \/ BuiltN <= 2) =>
                SeqToSet(call.ancillas) \cap MeasuredWires(prog) = {}

\* C7 witness: three active wires of four measured, one iteration, the
\* default ancilla (wire 4) in use
C7_Witness ==
    /\ BuildReturned
    /\ call.active_nbits = 3 /\ call.nbits_max = 4 /\ call.iters = 1
    /\ call.ancilla_start = <<>> /\ call.targets = <<6>>
    /\ 4 \in GateWires(prog)
    /\ MeasuredWires(prog) = 0..3

\* what the build allocates and uses, whatever ancilla_start is
AllocatesLadderAncillas ==
    /\ call.ancillas = Range(BuiltStart, Max(0, BuiltN - 2))
    /\ GateWires(prog) \subseteq (0..(BuiltN - 1)) \cup SeqToSet(call.ancillas)
    /\ call.iters >= 1 => SeqToSet(call.ancillas) \subseteq GateWires(prog)

\* C8 as claimed: for every accepted input, with any ancilla_start, the
\* max(0, n-2) ancillas ancilla_start.. are disjoint from the measured range
\* and from the active wires.
C8_Original_AlwaysDisjoint ==
    BuildReturned =>
        /\ AllocatesLadderAncillas
        /\ SeqToSet(call.ancillas) \cap MeasuredWires(prog) = {}
        /\ SeqToSet(call.ancillas) \cap (0..(BuiltN - 1)) = {}

\* C8 (amended): for every accepted input build allocates exactly the
\* max(0, n-2) wires ancilla_start .. ancilla_start + max(0, n-2) - 1 as
\* ancillas; this set is disjoint from the measured range [0, W), and so
\* from the active wires, when ancilla_start >= W (as by default) or n <= 2.
C8_AncillaAllocation ==
    BuildReturned =>
        /\ AllocatesLadderAncillas
        /\ (BuiltStart >= call.nbits_max \/ BuiltN <= 2) =>
            /\ SeqToSet(call.ancillas) \cap MeasuredWires(prog) = {}
            /\ SeqToSet(call.ancillas) \cap (0..(BuiltN - 1)) = {}

\* C8 witness: four active wires, width 4, the caller's ancilla_start 5: the
\* ancillas are wires 5 and 6
C8_Witness ==
    /\ BuildReturned
    /\ call.active_nbits = 4 /\ call.nbits_max = 4 /\ call.iters = 1
    /\ call.ancilla_start = <<5>>
    /\ call.ancillas = <<5, 6>>
    /\ GateWires(prog) = {0, 1, 2, 3, 5, 6}

\* C9 (totality of build): for n >= 1 the build fails if and only if n > W,
\* and then with the active_nbits error before any gate; for n <= W the
\* ancillas handed on are at least the n-2 every _cmz call needs and the
\* insufficient-ancilla error is never raised.
C9_BuildTotal ==
    (call.fn = "build_grover_prog" /\ call.active_nbits >= 1) =>
        /\ kpc \in {"returned", "raised"}
        /\ kpc = "raised" <=> call.active_nbits > call.nbits_max
        /\ kpc = "raised" => err = ActiveExceedsMeasured /\ prog = <<>>
        /\ kpc = "returned" =>
            /\ err = NoError
            /\ Len(call.ancillas) >= (call.active_nbits - 1) - 1

\* C9 witness: n = W = 4 with one target and one iteration: two _cmz calls
\* with three controls each were made and the build returned
C9_Witness ==
    /\ BuildReturned /\ err = NoError
    /\ call.active_nbits = 4 /\ call.nbits_max = 4 /\ call.iters = 1
    /\ call.targets = <<14>> /\ call.ancilla_start = <<0>>
    /\ Cardinality(cmz_at) = 2

\* number of controls of the _cmz call that a direct call makes
CallControls == IF call.fn = "_cmz" THEN Len(call.wires) ELSE Len(call.wires) - 1

\* the call was handed fewer ancillas than its _cmz needs
TooFewAncillas == CallControls >= 2 /\ Len(call.ancillas) < CallControls - 1

DirectCall == /\ kpc \in {"returned", "raised"}
              /\ call.fn \in {"_cmz", "_oracle_phase_flip", "_diffusion"}

\* the gates s[1..] mapped by gate "h" or "x"
Layer(ws, gate) == [i \in 1..Len(ws) |-> IF gate = "h" THEN _h(ws[i]) ELSE _x(ws[i])]

\* the gates a failing call has appended when its _cmz raises
PreludeOfFailingCall ==
    IF call.fn = "_cmz" THEN <<>>
    ELSE IF call.fn = "_diffusion" THEN Layer(call.wires, "h") \o Layer(call.wires, "x")
    ELSE Layer(SelectSeq(call.wires, LAMBDA q : BitOf(call.targets[1], q) = 0), "x")

\* C10 as claimed: whenever _cmz, the oracle or the diffusion is called with
\* fewer than the m-1 ancillas needed, the call fails with the error stating
\* the required count and the program holds exactly the gates it held before.
C10_Original_NoGateAppended ==
    (DirectCall /\ TooFewAncillas) =>
        /\ kpc = "raised"
        /\ err = NotEnoughAncillas(CallControls - 1, Len(call.ancillas))
        /\ prog = before

\* C10 (amended): a _cmz call with m >= 2 controls and fewer than m-1
\* ancillas fails with the error stating the required count and appends no
\* gate.  The diffusion, and the oracle when its target list is not empty,
\* fail with the same error when handed too few ancillas, but only in their
\* inner _cmz call: the program then holds, after the gates it held before,
\* the gates the call appended ahead of that _cmz (the X gates on the zero
\* bits of the first target; the H and X layers of the diffusion).  No other
\* direct call fails.
C10_ErrorsAndAppendedGates ==
    DirectCall =>
        /\ kpc = "raised" <=>
              (TooFewAncillas /\ (call.fn = "_oracle_phase_flip" => call.targets # <<>>))
        /\ kpc = "raised" =>
            /\ err = NotEnoughAncillas(CallControls - 1, Len(call.ancillas))
            /\ prog = before \o PreludeOfFailingCall
        /\ (kpc = "raised" /\ call.fn = "_cmz") => prog = before

\* C10 witness: the oracle for target 1 on four wires with one ancilla fails
\* after appending X gates to the opened program
C10_Witness ==
    /\ kpc = "raised" /\ call.fn = "_oracle_phase_flip"
    /\ Len(call.wires) = 4 /\ Len(call.ancillas) = 1 /\ call.targets = <<1>>
    /\ err = NotEnoughAncillas(2, 1)
    /\ Len(before) = 4
    /\ Len(prog) = 7

(***************************************************************************)
(* Properties of run_job_get_probs_ex (SpecJob, SpecJobFair).              *)
(***************************************************************************)
JobReturned == jpc \in {"returned", "recorded"}

\* (probs, error_message): a dict of floats and a string
IsResultPair(r) ==
    /\ r # PyNone
    /\ \A i \in 1..Len(r.probs) : r.probs[i][2].type = "float"
    /\ \A i \in 1..Len(r.err) : r.err[i] # ""

\* C12 (no exception past the boundary): whatever the backend does
\* (backend.run, job.status, job.result or get_probs_list raising any
\* exception, any sequence of statuses, a probs_list of any shape), no
\* exception leaves run_job_get_probs_ex, and when it is over it has returned
\* a pair of a dict of floats and a message.
C12_NeverThrows ==
    /\ jpc # "raised"
    /\ exc = PyNone
    /\ JobReturned => IsResultPair(ret)

\* C12 witness: the second job.status() call raised an exception that is not
\* a RuntimeError, and the function returned the failure for it
C12_Witness ==
    /\ jpc = "returned" /\ polls = 2 /\ job_status = "RUNNING"
    /\ ret = [probs |-> <<>>, err |-> <<"job.status failed: ", "connection reset">>]

\* C13 (result shape), as stated: every return is a success (the mapping, with
\* an empty message) or a failure (an empty mapping with a non-empty
\* message); an empty mapping never comes with an empty message.
C13_Original_ResultShape ==
    JobReturned =>
        \/ ret.probs # <<>> /\ ret.err = <<>>
        \/ ret.probs = <<>> /\ ret.err # <<>>

\* C13, the return that breaks it: the job finished and the first element of
\* probs_list was an empty dict; ({}, "") came back and main recorded the
\* run as FAILED with an empty error_message
C13_EmptyMappingEmptyMessage ==
    /\ jpc = "recorded" /\ job_status = "FINISHED"
    /\ ret = [probs |-> <<>>, err |-> <<>>]
    /\ rec = [status |-> "FAILED", error_message |-> <<>>]

\* C13, what every return does satisfy: a non-empty mapping comes with an
\* empty message, and a non-empty message comes with an empty mapping
C13_ResultShapeButEmptyDict ==
    JobReturned =>
        /\ ret.probs # <<>> => ret.err = <<>>
        /\ ret.err # <<>> => ret.probs = <<>>

TerminalStatuses == {"FINISHED", "FAILED", "CANCELED"}

\* C14 (polling stops), as stated: no further poll (status call or sleep)
\* once a status of FINISHED, FAILED or CANCELED was observed, and none once
\* a poll found more than max_poll_sec elapsed since the function was entered.
C14_Original_PollingStops ==
    /\ job_status \in TerminalStatuses => jpc \notin {"sleep", "status"}
    /\ jpc = "sleep" => clock - t0 <= max_poll_sec

\* C14, the run that breaks it: CANCELED was observed, the loop slept and
\* polled again, and is about to sleep once more
C14_PollsAfterCanceled ==
    /\ jpc = "sleep" /\ job_status = "CANCELED" /\ polls = 2
    /\ clock - t0 <= max_poll_sec

\* C14, what the loop does: it stops on FINISHED and FAILED, goes on after any
\* other status while no more than max_poll_sec has elapsed, and returns the
\* timeout failure at the first poll that finds more elapsed
C14_StopsOnFinishedFailedTimeout ==
    /\ job_status \in {"FINISHED", "FAILED"} => jpc \notin {"sleep", "status"}
    /\ jpc = "sleep" => clock - t0 <= max_poll_sec
    /\ (jpc = "returned" /\ ret.err = <<"poll timeout">>) =>
           /\ clock - t0 > max_poll_sec
           /\ job_status \notin {"FINISHED", "FAILED"}

\* C14, termination: with the clock advancing at every status call, a call of
\* the function is eventually over
C14_PollingTerminates == (jpc = "run") ~> JobReturned

(***************************************************************************)
(* Properties of the probe and the fallback (SpecProbe).                   *)
(***************************************************************************)
ProbeWires == 0..(probe_nbits_max - 1)

\* C15 (complete mapping), as stated: the mapping main decodes with is
\* defined on every wire in [0, W) and is a bijection onto [0, W), for every
\* set of probe outcomes.
C15_Original_CompleteMappingIsBijection ==
    ppc = "ready" =>
        /\ DOMAIN main_qubit_to_pos = ProbeWires
        /\ \A q \in ProbeWires : main_qubit_to_pos[q] \in ProbeWires
        /\ \A q1, q2 \in ProbeWires :
               q1 # q2 => main_qubit_to_pos[q1] # main_qubit_to_pos[q2]

\* C15, the outcome that breaks it: of two wires, the probe of wire 0 failed
\* and the probe of wire 1 gave position 0; the fallback sends wire 0 to
\* position 0 too
C15_TwoWiresOnePosition ==
    /\ ppc = "ready" /\ probe_nbits_max = 2 /\ fallback_used
    /\ DOMAIN probe_qubit_to_pos = {1} /\ probe_qubit_to_pos[1] = 0
    /\ main_qubit_to_pos[0] = 0 /\ main_qubit_to_pos[1] = 0

\* C15, what the fallback does give: the mapping is defined on every wire in
\* [0, W), a probed wire keeps its probed position and every other wire has
\* its own index
C15_MappingDefinedOnEveryWire ==
    ppc = "ready" =>
        /\ DOMAIN main_qubit_to_pos = ProbeWires
        /\ \A q \in ProbeWires :
               main_qubit_to_pos[q] =
                   IF q \in DOMAIN probe_qubit_to_pos THEN probe_qubit_to_pos[q] ELSE q
        /\ fallback_used = (DOMAIN probe_qubit_to_pos # ProbeWires)

====
